---- MODULE Spec2Model ----
(***************************************************************************)
(* sformat-dynamic: a template is compiled to a token sequence             *)
(* (compile.rs), which is rendered against a Context (context.rs) through  *)
(* Token::write_token (token.rs) and Format::write_formatted (format.rs).  *)
(*                                                                         *)
(* Conventions of the model                                                *)
(*  - a char is a string; a &str / String is a sequence of chars.  A char  *)
(*    written "U+XXXX" stands for that non-ASCII code point;               *)
(*  - Option<T>: None is <<>>, Some(x) is <<x>>;                           *)
(*  - a usize is an integer; a negative integer stands for the value       *)
(*    wrapped around 2^64 by an unchecked subtraction (2^64 + v);          *)
(*  - a result "Ok" / "Err" is Result<_, io::Error>; "Abort" is a panic or *)
(*    an allocation failure, i.e. no return to the caller.                 *)
(***************************************************************************)
EXTENDS Integers, Sequences, FiniteSets, TLC

None == <<>>
Some(x) == <<x>>

(***************************************************************************)
(* Bounds of the model                                                     *)
(***************************************************************************)
MaxWidth == 6
MaxPieces == 2
MaxRoom == 3

(***************************************************************************)
(* Characters                                                              *)
(***************************************************************************)
DigitChars == <<"0", "1", "2", "3", "4", "5", "6", "7", "8", "9">>

IsDigit(c) == \E i \in 1..10 : DigitChars[i] = c

DigitValue(c) == (CHOOSE i \in 1..10 : DigitChars[i] = c) - 1

\* char::len_utf8 / str::len: the number of bytes of the UTF-8 encoding
len_utf8(c) ==
    CASE c = "U+00E9" -> 2
      [] c = "U+540D" -> 3
      [] OTHER -> 1

RECURSIVE str_len(_)
str_len(s) == IF s = <<>> THEN 0 ELSE len_utf8(Head(s)) + str_len(Tail(s))

\* UnicodeXID::is_xid_start
is_xid_start(c) == c \in {"a", "b", "n", "s", "U+00E9", "U+540D"}

\* UnicodeXID::is_xid_continue
is_xid_continue(c) == is_xid_start(c) \/ IsDigit(c) \/ c = "_"

(***************************************************************************)
(* context.rs: TypedValue                                                  *)
(***************************************************************************)
SignedTags == {"Int", "Int64", "Int32", "Int16", "Int8"}
UnsignedTags == {"Uint", "Uint64", "Uint32", "Uint16", "Uint8"}
FloatTags == {"Float32", "Float64"}

Str(s) == [tag |-> "Str", inner |-> s]
IntV(t, n) == [tag |-> t, num |-> n]
FloatV(t, cls, neg, whole, frac) ==
    [tag |-> t, cls |-> cls, neg |-> neg, whole |-> whole, frac |-> frac]
BoolV(b) == [tag |-> "Bool", b |-> b]
DynV(ptr, text) == [tag |-> "Dyn", ptr |-> ptr, text |-> text]

\* u*/i*::to_string for a non-negative number
RECURSIVE Digits(_)
Digits(n) ==
    IF n < 10 THEN <<DigitChars[n + 1]>>
    ELSE Digits(n \div 10) \o <<DigitChars[(n % 10) + 1]>>

IntToString(n) == IF n < 0 THEN <<"-">> \o Digits(0 - n) ELSE Digits(n)

\* f32/f64::to_string: sign, integral digits, then "." and the fraction
\* digits when there are any; "NaN", "inf", "-inf"
FloatToString(v) ==
    CASE v.cls = "nan" -> <<"N", "a", "N">>
      [] v.cls = "inf" -> (IF v.neg THEN <<"-">> ELSE <<>>) \o <<"i", "n", "f">>
      [] OTHER -> (IF v.neg THEN <<"-">> ELSE <<>>) \o Digits(v.whole)
                   \o (IF v.frac = <<>> THEN <<>> ELSE <<".">> \o v.frac)

\* TypedValue::string_repr followed by StringRepresentation::as_ref
string_repr(val) ==
    CASE val.tag = "Str" -> val.inner
      [] val.tag \in SignedTags \cup UnsignedTags -> IntToString(val.num)
      [] val.tag \in FloatTags -> FloatToString(val)
      [] val.tag = "Bool" ->
            IF val.b THEN <<"t", "r", "u", "e">> ELSE <<"f", "a", "l", "s", "e">>
      [] val.tag = "Dyn" -> val.text

is_numeric(val) == val.tag \in SignedTags \cup UnsignedTags \cup FloatTags

\* sign that reads the sign bit of a float without the is_finite test
sign_by_bit(val) ==
    CASE val.tag \in SignedTags ->
            (IF val.num > 0 THEN Some("Positive")
             ELSE IF val.num = 0 THEN Some("Zero") ELSE Some("Negative"))
      [] val.tag \in UnsignedTags ->
            (IF val.num = 0 THEN Some("Zero") ELSE Some("Positive"))
      [] val.tag \in FloatTags ->
            (IF ~val.neg THEN Some("Positive") ELSE Some("Negative"))
      [] OTHER -> None

\* TypedValue::sign -> Option<Sign>
sign(val) ==
    CASE val.tag \in SignedTags ->
            (IF val.num > 0 THEN Some("Positive")
             ELSE IF val.num = 0 THEN Some("Zero") ELSE Some("Negative"))
      [] val.tag \in UnsignedTags ->
            (IF val.num = 0 THEN Some("Zero") ELSE Some("Positive"))
      [] val.tag \in FloatTags ->
            (IF val.cls = "finite"
             THEN (IF ~val.neg THEN Some("Positive") ELSE Some("Negative"))
             ELSE None)
      [] OTHER -> None

\* impl Into<u8> for Sign
SignInto(s) == IF s = "Negative" THEN "-" ELSE "+"

(***************************************************************************)
(* format.rs: Fill, Flags, Format                                          *)
(***************************************************************************)
FillNew(fill_char, alignment) == [fill_char |-> fill_char, alignment |-> alignment]
FlagsNew(sgn, zero) == [sign |-> sgn, zero |-> zero]
FormatNew(fill, flags, width, precision) ==
    [fill |-> fill, flags |-> flags, width |-> width, precision |-> precision]

ZERO_FILL == FillNew(Some("0"), "Right")
DEFAULT_FILL == FillNew(Some(" "), "Left")

\* get_sign_for_value whose Minus arm answers like the Plus arm
get_sign_for_value_minus(sign_flag, val) == sign(val)

get_sign_for_value(sign_flag, val) ==
    IF sign_flag = "Plus" THEN sign(val) ELSE None

is_number_aware(flags) == flags.zero # None

\* get_fill without the zero-flag override
get_fill_explicit(self, val) ==
    IF self.fill = None THEN DEFAULT_FILL ELSE self.fill[1]

get_fill(self, val) ==
    IF is_number_aware(self.flags) /\ is_numeric(val) THEN ZERO_FILL
    ELSE IF self.fill = None THEN DEFAULT_FILL ELSE self.fill[1]

get_fill_char_or_default(fill) ==
    IF fill.fill_char = None THEN " " ELSE fill.fill_char[1]

(***************************************************************************)
(* std::io::Write: the sink.  room = None is a Vec<u8> (format_str);       *)
(* room = Some(n) is a sink that accepts n more bytes and then fails.      *)
(***************************************************************************)
RECURSIVE FitPrefix(_, _)
FitPrefix(bytes, room) ==
    IF bytes = <<>> \/ len_utf8(Head(bytes)) > room THEN <<>>
    ELSE <<Head(bytes)>> \o FitPrefix(Tail(bytes), room - len_utf8(Head(bytes)))

\* Write::write_all: all the bytes, or an error after the bytes that fitted
write_all(w, bytes) ==
    IF w.room = None
    THEN [w |-> [buf |-> w.buf \o bytes, room |-> None], res |-> "Ok"]
    ELSE IF str_len(bytes) <= w.room[1]
    THEN [w |-> [buf |-> w.buf \o bytes, room |-> Some(w.room[1] - str_len(bytes))],
          res |-> "Ok"]
    ELSE LET fit == FitPrefix(bytes, w.room[1])
         IN [w |-> [buf |-> w.buf \o fit, room |-> Some(w.room[1] - str_len(fit))],
             res |-> "Err"]

\* a usize subtraction: a panic when overflow checks are compiled in,
\* otherwise the wrapped value
usize_sub(a, b, overflow_checks) ==
    [val |-> a - b, res |-> IF a - b < 0 /\ overflow_checks THEN "Abort" ELSE "Ok"]

\* Fill::write_filler over the range 0..n
RECURSIVE write_filler(_, _, _)
write_filler(fill, n, w) ==
    IF n = 0 THEN [w |-> w, res |-> "Ok"]
    ELSE IF n < 0 /\ w.room = None THEN [w |-> w, res |-> "Abort"]
    ELSE LET r == write_all(w, <<get_fill_char_or_default(fill)>>)
         IN IF r.res # "Ok" THEN r ELSE write_filler(fill, n - 1, r.w)

\* Fill::write_left_filler -> Result<usize, io::Error>
write_left_filler(fill, val, width, w, overflow_checks) ==
    IF fill.alignment = "Left" THEN [w |-> w, res |-> "Ok", val |-> 0]
    ELSE LET d == usize_sub(width, str_len(val), overflow_checks)
             n == IF fill.alignment = "Center"
                  THEN (IF d.val < 0 THEN d.val ELSE d.val \div 2)
                  ELSE d.val
         IN IF d.res # "Ok" THEN [w |-> w, res |-> d.res, val |-> 0]
            ELSE write_filler(fill, n, w) @@ [val |-> n]

\* Fill::write_right_filler
write_right_filler(fill, width, w) ==
    IF fill.alignment \in {"Left", "Center"} THEN write_filler(fill, width, w)
    ELSE [w |-> w, res |-> "Ok"]

\* Format::write_sign -> Result<Option<Sign>, io::Error>
write_sign(self, sgn, w) ==
    IF sgn \in {"Positive", "Zero"} \/ (sgn = "Negative" /\ is_number_aware(self.flags))
    THEN write_all(w, <<SignInto(sgn)>>) @@ [val |-> Some(sgn)]
    ELSE [w |-> w, res |-> "Ok", val |-> None]

\* `if let Some(sign) = sign { self.write_sign(sign, write)?; }`
write_sign_opt(self, sgn, w) ==
    IF sgn = None THEN [w |-> w, res |-> "Ok", val |-> None]
    ELSE write_sign(self, sgn[1], w)

\* Format::write_formatted, arms `Some(width) if len > width` and `None`
write_unpadded(self, sgn, write_str, w) ==
    LET s == write_sign_opt(self, sgn, w)
    IN IF s.res # "Ok" THEN [w |-> s.w, res |-> s.res]
       ELSE write_all(s.w, write_str)

\* Format::write_formatted, arm `Some(width)`, lines 159-189: the sign column
sign_column(self, sgn, write_str, width, w, overflow_checks) ==
    IF is_number_aware(self.flags)
    THEN LET s == write_sign_opt(self, sgn, w)
             d == usize_sub(width, 1, overflow_checks)
         IN IF s.res # "Ok"
            THEN [w |-> s.w, res |-> s.res, width |-> width, str |-> write_str]
            ELSE IF s.val \in {Some("Positive"), Some("Zero")}
            THEN [w |-> s.w, res |-> d.res, width |-> d.val, str |-> write_str]
            ELSE IF s.val = Some("Negative")
            THEN [w |-> s.w, res |-> d.res, width |-> d.val, str |-> Tail(write_str)]
            ELSE [w |-> s.w, res |-> "Ok", width |-> width, str |-> write_str]
    ELSE IF sgn \in {Some("Positive"), Some("Zero")}
    THEN LET d == usize_sub(width, 1, overflow_checks)
         IN [w |-> w, res |-> d.res, width |-> d.val, str |-> write_str]
    ELSE [w |-> w, res |-> "Ok", width |-> width, str |-> write_str]

\* Format::write_formatted, arm `Some(width)`, lines 191-201
write_padded(self, sgn, fill, st, overflow_checks) ==
    LET lf == write_left_filler(fill, st.str, st.width, st.w, overflow_checks)
        d1 == usize_sub(st.width, lf.val, overflow_checks)
        sg == IF ~is_number_aware(self.flags)
              THEN write_sign_opt(self, sgn, lf.w)
              ELSE [w |-> lf.w, res |-> "Ok", val |-> None]
        wv == write_all(sg.w, st.str)
        d2 == usize_sub(d1.val, str_len(st.str), overflow_checks)
    IN IF lf.res # "Ok" THEN [w |-> lf.w, res |-> lf.res]
       ELSE IF d1.res # "Ok" THEN [w |-> lf.w, res |-> d1.res]
       ELSE IF sg.res # "Ok" THEN [w |-> sg.w, res |-> sg.res]
       ELSE IF wv.res # "Ok" THEN wv
       ELSE IF d2.res # "Ok" THEN [w |-> wv.w, res |-> d2.res]
       ELSE write_right_filler(fill, d2.val, wv.w)

\* a fraction cut or zero-extended to n digits
FixFrac(frac, n) == [i \in 1..n |-> IF i <= Len(frac) THEN frac[i] ELSE "0"]

\* write_formatted that applies the precision to a finite float
write_formatted_precise(self, val, w, overflow_checks) ==
    LET fixed == IF /\ self.precision # None /\ val.tag \in FloatTags
                    /\ val.cls = "finite"
                 THEN [val EXCEPT !.frac = FixFrac(val.frac, self.precision[1])]
                 ELSE val
        write_str == string_repr(fixed)
        sgn == IF self.flags.sign = None THEN None
               ELSE get_sign_for_value(self.flags.sign[1], val)
    IN IF self.width # None /\ str_len(write_str) > self.width[1]
       THEN write_unpadded(self, sgn, write_str, w)
       ELSE IF self.width = None
       THEN write_unpadded(self, sgn, write_str, w)
       ELSE LET st == sign_column(self, sgn, write_str, self.width[1], w,
                                  overflow_checks)
            IN IF st.res # "Ok" THEN [w |-> st.w, res |-> st.res]
               ELSE write_padded(self, sgn, get_fill(self, val), st, overflow_checks)

\* Format::write_formatted
write_formatted(self, val, w, overflow_checks) ==
    LET write_str == string_repr(val)
        sgn == IF self.flags.sign = None THEN None
               ELSE get_sign_for_value(self.flags.sign[1], val)
    IN IF self.width # None /\ str_len(write_str) > self.width[1]
       THEN write_unpadded(self, sgn, write_str, w)
       ELSE IF self.width = None
       THEN write_unpadded(self, sgn, write_str, w)
       ELSE LET st == sign_column(self, sgn, write_str, self.width[1], w,
                                  overflow_checks)
            IN IF st.res # "Ok" THEN [w |-> st.w, res |-> st.res]
               ELSE write_padded(self, sgn, get_fill(self, val), st, overflow_checks)

(***************************************************************************)
(* compile.rs: the nom parsers.  A parse result is                         *)
(* [ok |-> BOOLEAN, rest |-> remaining input, val |-> parsed value].       *)
(***************************************************************************)
ParseOk(rest, val) == [ok |-> TRUE, rest |-> rest, val |-> val]
ParseErr(input) == [ok |-> FALSE, rest |-> input, val |-> None]

\* nom `opt`: a failure becomes None and consumes nothing
Opt(r, input) == IF r.ok THEN ParseOk(r.rest, Some(r.val)) ELSE ParseOk(input, None)

alignment_parser(input) ==
    IF input = <<>> THEN ParseErr(input)
    ELSE CASE Head(input) = "<" -> ParseOk(Tail(input), "Left")
           [] Head(input) = "^" -> ParseOk(Tail(input), "Center")
           [] Head(input) = ">" -> ParseOk(Tail(input), "Right")
           [] OTHER -> ParseErr(input)

\* flags parser that takes the zero flag and the sign in either order
flags_parser_any_order(input) ==
    LET at(i, c) == Len(input) >= i /\ input[i] = c
        sgn(i) == IF at(i, "+") THEN Some("Plus")
                  ELSE IF at(i, "-") THEN Some("Minus") ELSE None
    IN IF at(1, "0") /\ sgn(2) # None
       THEN ParseOk(SubSeq(input, 3, Len(input)), FlagsNew(sgn(2), Some(<<>>)))
       ELSE IF sgn(1) # None /\ at(2, "0")
       THEN ParseOk(SubSeq(input, 3, Len(input)), FlagsNew(sgn(1), Some(<<>>)))
       ELSE IF sgn(1) # None THEN ParseOk(Tail(input), FlagsNew(sgn(1), None))
       ELSE IF at(1, "0") THEN ParseOk(Tail(input), FlagsNew(None, Some(<<>>)))
       ELSE ParseOk(input, FlagsNew(None, None))

flags_parser(input) ==
    LET sgn == IF input # <<>> /\ Head(input) = "+" THEN ParseOk(Tail(input), Some("Plus"))
               ELSE IF input # <<>> /\ Head(input) = "-"
               THEN ParseOk(Tail(input), Some("Minus"))
               ELSE ParseOk(input, None)
        zero == IF sgn.rest # <<>> /\ Head(sgn.rest) = "0"
                THEN ParseOk(Tail(sgn.rest), Some(<<>>))
                ELSE ParseOk(sgn.rest, None)
    IN ParseOk(zero.rest, FlagsNew(sgn.val, zero.val))

\* nom character::complete::u32: one or more decimal digits.  (Its error on
\* a value above u32::MAX needs ten digits, more than any template here.)
RECURSIVE u32_digits(_, _)
u32_digits(input, value) ==
    IF input = <<>> \/ ~IsDigit(Head(input)) THEN ParseOk(input, value)
    ELSE u32_digits(Tail(input), value * 10 + DigitValue(Head(input)))

u32(input) ==
    IF input = <<>> \/ ~IsDigit(Head(input)) THEN ParseErr(input)
    ELSE LET r == u32_digits(input, 0) IN IF r.ok THEN r ELSE ParseErr(input)

precision_parser(input) ==
    IF input = <<>> \/ Head(input) # "." THEN ParseErr(input)
    ELSE LET r == u32(Tail(input)) IN IF r.ok THEN r ELSE ParseErr(input)

\* nom take_while(|c| c == '_' || c.is_xid_continue())
RECURSIVE take_ident_continue(_)
take_ident_continue(input) ==
    IF input # <<>> /\ (Head(input) = "_" \/ is_xid_continue(Head(input)))
    THEN <<Head(input)>> \o take_ident_continue(Tail(input))
    ELSE <<>>

\* identifier parser that takes any first character that is not a brace
rust_identifier_parser_any(input) ==
    IF input = <<>> \/ Head(input) \in {"{", "}"} THEN ParseErr(input)
    ELSE LET more == take_ident_continue(Tail(input))
         IN ParseOk(SubSeq(input, Len(more) + 2, Len(input)), <<Head(input)>> \o more)

rust_identifier_parser(input) ==
    IF input = <<>> \/ ~is_xid_start(Head(input)) THEN ParseErr(input)
    ELSE LET more == take_ident_continue(Tail(input))
         IN ParseOk(SubSeq(input, Len(more) + 2, Len(input)), <<Head(input)>> \o more)

\* format_parser: fill_spec
fill_spec(input) ==
    LET with_char == IF input = <<>> THEN ParseErr(input)
                     ELSE alignment_parser(Tail(input))
        alone == alignment_parser(input)
    IN IF with_char.ok
       THEN ParseOk(with_char.rest, FillNew(Some(Head(input)), with_char.val))
       ELSE IF alone.ok THEN ParseOk(alone.rest, FillNew(None, alone.val))
       ELSE ParseErr(input)

format_parser(input) ==
    IF input = <<>> \/ Head(input) # ":" THEN ParseErr(input)
    ELSE LET fill == Opt(fill_spec(Tail(input)), Tail(input))
             flags == flags_parser(fill.rest)
             width == Opt(u32(flags.rest), flags.rest)
             precision == Opt(precision_parser(width.rest), width.rest)
         IN ParseOk(precision.rest,
                    FormatNew(fill.val, flags.val, width.val, precision.val))

(***************************************************************************)
(* token.rs: Token                                                         *)
(***************************************************************************)
Literal(text) == [kind |-> "Literal", text |-> text]
Variable(name, format) == [kind |-> "Variable", name |-> name, format |-> format]

\* literal run of one character
take_literal_char(input) ==
    IF input # <<>> /\ Head(input) # "{" THEN <<Head(input)>> ELSE <<>>

\* literal run that stops only at a "{" with no "{" next to it
take_literal_merge(input) ==
    LET stops(i) == /\ input[i] = "{"
                    /\ ~(i < Len(input) /\ input[i + 1] = "{")
                    /\ ~(i > 1 /\ input[i - 1] = "{")
        n == IF \E i \in 1..Len(input) : stops(i)
             THEN CHOOSE i \in 1..Len(input) :
                      stops(i) /\ \A j \in 1..(i - 1) : ~stops(j)
             ELSE Len(input) + 1
    IN SubSeq(input, 1, n - 1)

\* nom take_while1(|c| c != '{')
RECURSIVE take_literal(_)
take_literal(input) ==
    IF input # <<>> /\ Head(input) # "{"
    THEN <<Head(input)>> \o take_literal(Tail(input))
    ELSE <<>>

\* token parser whose escape token holds the unescaped "{"
token_parser_unescape(input) ==
    LET ident == IF input # <<>> /\ Head(input) = "{"
                 THEN rust_identifier_parser(Tail(input))
                 ELSE ParseErr(input)
        format == Opt(format_parser(ident.rest), ident.rest)
        lit == take_literal(input)
    IN IF Len(input) >= 2 /\ input[1] = "{" /\ input[2] = "{"
       THEN ParseOk(SubSeq(input, 3, Len(input)), Literal(<<"{">>))
       ELSE IF ident.ok /\ format.rest # <<>> /\ Head(format.rest) = "}"
       THEN ParseOk(Tail(format.rest), Variable(ident.val, format.val))
       ELSE IF lit # <<>>
       THEN ParseOk(SubSeq(input, Len(lit) + 1, Len(input)), Literal(lit))
       ELSE ParseErr(input)

\* compile: the `alt` of the three token parsers
token_parser(input) ==
    LET ident == IF input # <<>> /\ Head(input) = "{"
                 THEN rust_identifier_parser(Tail(input))
                 ELSE ParseErr(input)
        format == Opt(format_parser(ident.rest), ident.rest)
        lit == take_literal(input)
    IN IF Len(input) >= 2 /\ input[1] = "{" /\ input[2] = "{"
       THEN ParseOk(SubSeq(input, 3, Len(input)), Literal(<<"{", "{">>))
       ELSE IF ident.ok /\ format.rest # <<>> /\ Head(format.rest) = "}"
       THEN ParseOk(Tail(format.rest), Variable(ident.val, format.val))
       ELSE IF lit # <<>>
       THEN ParseOk(SubSeq(input, Len(lit) + 1, Len(input)), Literal(lit))
       ELSE ParseErr(input)

\* many_till that returns the tokens it has when no token parser matches
RECURSIVE many_till_partial(_, _)
many_till_partial(input, tokens) ==
    IF input = <<>> THEN ParseOk(input, tokens)
    ELSE LET r == token_parser(input)
         IN IF ~r.ok \/ Len(r.rest) = Len(input) THEN ParseOk(input, tokens)
            ELSE many_till_partial(r.rest, Append(tokens, r.val))

\* nom many_till(token, eof)
RECURSIVE many_till(_, _)
many_till(input, tokens) ==
    IF input = <<>> THEN ParseOk(input, tokens)
    ELSE LET r == token_parser(input)
         IN IF ~r.ok \/ Len(r.rest) = Len(input) THEN ParseErr(input)
            ELSE many_till(r.rest, Append(tokens, r.val))

\* compile -> Result<CompiledFormat, CompileError>; val is CompiledFormat.ast
compile(format_str) == many_till(format_str, <<>>)

(***************************************************************************)
(* context.rs: Context for HashMap; format.rs: Error                       *)
(***************************************************************************)
Ok == [kind |-> "Ok", name |-> <<>>]
WriteLiteralError == [kind |-> "WriteLiteralError", name |-> <<>>]
WriteVariableError(name) == [kind |-> "WriteVariableError", name |-> name]
VariableNameError(name) == [kind |-> "VariableNameError", name |-> name]
Abort == [kind |-> "Abort", name |-> <<>>]
CompileError == [kind |-> "CompileError", name |-> <<>>]

\* get_variable whose error does not echo the queried name
get_variable_unnamed(context, name) ==
    IF name \in DOMAIN context THEN [res |-> Ok, val |-> Some(context[name])]
    ELSE [res |-> VariableNameError(<<>>), val |-> None]

get_variable(context, name) ==
    IF name \in DOMAIN context THEN [res |-> Ok, val |-> Some(context[name])]
    ELSE [res |-> VariableNameError(name), val |-> None]

\* map_err that reports every write failure as a literal-write error
MapErr_literal(r, err) ==
    [w |-> r.w,
     res |-> CASE r.res = "Ok" -> Ok
               [] r.res = "Err" -> WriteLiteralError
               [] OTHER -> Abort]

\* io::Result of a write mapped through map_err
MapErr(r, err) ==
    [w |-> r.w,
     res |-> CASE r.res = "Ok" -> Ok
               [] r.res = "Err" -> err
               [] OTHER -> Abort]

\* Token::write_token
write_token(self, w, context, overflow_checks) ==
    IF self.kind = "Literal"
    THEN MapErr(write_all(w, self.text), WriteLiteralError)
    ELSE LET v == get_variable(context, self.name)
         IN IF v.res # Ok THEN [w |-> w, res |-> v.res]
            ELSE IF self.format = None
            THEN MapErr(write_all(w, string_repr(v.val[1])),
                        WriteVariableError(self.name))
            ELSE MapErr(write_formatted(self.format[1], v.val[1], w, overflow_checks),
                        WriteVariableError(self.name))

(***************************************************************************)
(* The program: compile a template, then CompiledFormat::format walks the  *)
(* token sequence.                                                         *)
(***************************************************************************)
VARIABLES
    format_str,       \* the template handed to compile
    ast,              \* Option<CompiledFormat.ast>
    context,          \* the HashMap<Name, TypedValue> handed to format
    write,            \* the sink handed to format
    idx,              \* position of `for token in self.ast.iter()`
    result,           \* None while running, Some(result) once returned
    overflow_checks,  \* whether the build checks integer overflow
    renders,          \* the format calls that returned: lookup, sink, result, output
    record,           \* Option<struct>: the input of #[derive(Context)], if any
    found,            \* Option<(name, result)>: the last direct get_variable call
    pc

vars == <<format_str, ast, context, write, idx, result, overflow_checks,
          renders, record, found, pc>>

Cat(a, b) == a \o b

RECURSIVE Concats(_, _)
Concats(pieces, n) ==
    IF n = 0 THEN {<<>>}
    ELSE LET shorter == Concats(pieces, n - 1)
         IN shorter \cup {Cat(s, p) : s \in shorter, p \in pieces}

Pieces ==
    { <<"a", "b">>, <<" ">>, <<"}">>, <<"{", "{">>, <<"{">>,
      <<"{", "a", "}">>,
      <<"{", "b", ":", ">", "+", "3", "}">>,
      <<"{", "U+540D", "}">> }

\* templates of the tests of compile.rs and malformed brace groups
ExampleTemplates ==
    { <<"{", "{", " ", "{", "{", " ", "{", "{">>,
      <<"{", "1", "}">>,
      <<"{", "_", "a", "}">>,
      <<"{", "a", "_", "1", "}">>,
      <<"{", "a", ":", "5", "x", "}">>,
      <<"{", "a", ":", "{", "<", "2", "}">>,
      <<"a", "{", "{", "b", "{", "a", ":", "}", "<", "2", "}", "{", "{">> }

Templates == Concats(Pieces, MaxPieces) \cup ExampleTemplates

Contexts ==
    { a @@ b @@ (<<"U+540D">> :> Str(<<"U+00E9">>)) @@ (<<"s">> :> BoolV(TRUE)) :
        a \in {<<>>} \cup {(<<"a">> :> v) : v \in {Str(<<"a", "b">>), IntV("Int8", 0 - 5)}},
        b \in {<<>>, (<<"b">> :> IntV("Uint8", 7))} }

Rooms == {None} \cup {Some(n) : n \in 0..MaxRoom}

Init ==
    /\ format_str \in Templates
    /\ context \in Contexts
    /\ write \in {[buf |-> <<>>, room |-> r] : r \in Rooms}
    /\ overflow_checks \in BOOLEAN
    /\ ast = None
    /\ idx = 0
    /\ result = None
    /\ renders = <<>>
    /\ record = None
    /\ found = None
    /\ pc = "compile"

\* compile(format_str)
Compile ==
    /\ pc = "compile"
    /\ LET r == compile(format_str)
       IN IF r.ok
          THEN /\ ast' = Some(r.val)
               /\ idx' = 1
               /\ pc' = "format"
               /\ UNCHANGED result
          ELSE /\ result' = Some(CompileError)
               /\ pc' = "done"
               /\ UNCHANGED <<ast, idx>>
    /\ UNCHANGED <<format_str, context, write, overflow_checks, renders, record, found>>

\* a format call that returned, as its caller saw it: the lookup and the
\* sink it passed (the room the sink had on entry), the result and the output
Returns(w, res) ==
    [context |-> context,
     room |-> IF w.room = None THEN None ELSE Some(w.room[1] + str_len(w.buf)),
     result |-> res,
     buf |-> w.buf]

\* CompiledFormat::format, one iteration: `token.write_token(write, context)?`
WriteToken ==
    /\ pc = "format"
    /\ idx <= Len(ast[1])
    /\ LET r == write_token(ast[1][idx], write, context, overflow_checks)
       IN /\ write' = r.w
          /\ IF r.res = Ok
             THEN /\ idx' = idx + 1
                  /\ UNCHANGED <<result, pc, renders>>
             ELSE /\ result' = Some(r.res)
                  /\ pc' = "done"
                  /\ renders' = Append(renders, Returns(r.w, r.res))
                  /\ UNCHANGED idx
    /\ UNCHANGED <<format_str, ast, context, overflow_checks, record, found>>

\* CompiledFormat::format, after the loop: `Ok(())`
FormatReturn ==
    /\ pc = "format"
    /\ idx > Len(ast[1])
    /\ result' = Some(Ok)
    /\ pc' = "done"
    /\ renders' = Append(renders, Returns(write, Ok))
    /\ UNCHANGED <<format_str, ast, context, write, idx, overflow_checks, record, found>>

Next == Compile \/ WriteToken \/ FormatReturn

Spec == Init /\ [][Next]_vars

(***************************************************************************)
(* The layout engine on its own: one placeholder `{n:<format-spec>}` whose *)
(* format-spec is assembled from every combination of the components, a    *)
(* value of every kind, rendered by format_str (a Vec<u8> sink).           *)
(***************************************************************************)
FillPieces ==
    {<<>>, <<"<">>, <<"^">>, <<">">>, <<"*", "<">>, <<"*", "^">>, <<"*", ">">>}
SignPieces == {<<>>, <<"+">>, <<"-">>}
ZeroPieces == {<<>>, <<"0">>}
WidthPieces == {<<>>} \cup {Digits(w) : w \in 0..MaxWidth}
PrecisionPieces == {<<>>, <<".", "2">>}

LayoutTemplates ==
    { <<"{", "n", ":">> \o f \o s \o z \o w \o p \o <<"}">> :
        f \in FillPieces, s \in SignPieces, z \in ZeroPieces,
        w \in WidthPieces, p \in PrecisionPieces }

LayoutValues ==
    { Str(<<>>), Str(<<"a", "b">>), Str(<<"U+00E9", "a">>),
      IntV("Int", 0 - 194), IntV("Int8", 0 - 5), IntV("Int32", 0), IntV("Int64", 42),
      IntV("Uint", 0), IntV("Uint8", 7),
      FloatV("Float64", "finite", FALSE, 1, <<"5">>),
      FloatV("Float32", "finite", TRUE, 1, <<"5">>),
      FloatV("Float64", "finite", FALSE, 0, <<>>),
      FloatV("Float64", "finite", TRUE, 0, <<>>),
      FloatV("Float32", "nan", FALSE, 0, <<>>),
      FloatV("Float64", "inf", FALSE, 0, <<>>),
      FloatV("Float64", "inf", TRUE, 0, <<>>),
      BoolV(TRUE), BoolV(FALSE),
      DynV("Debug", <<"T">>), DynV("Display", <<"-", "x">>) }

InitLayout ==
    /\ format_str \in LayoutTemplates
    /\ context \in {(<<"n">> :> v) : v \in LayoutValues}
    /\ write = [buf |-> <<>>, room |-> None]
    /\ overflow_checks \in BOOLEAN
    /\ ast = None
    /\ idx = 0
    /\ result = None
    /\ renders = <<>>
    /\ record = None
    /\ found = None
    /\ pc = "compile"

SpecLayout == InitLayout /\ [][Next]_vars

(***************************************************************************)
(* Vocabulary of the properties                                            *)
(***************************************************************************)
Rep(c, n) == [i \in 1..n |-> c]

\* the template is a single placeholder with a format-spec whose name the
\* lookup resolves, and write_token has run on it
Rendered ==
    /\ ast # None
    /\ Len(ast[1]) = 1
    /\ ast[1][1].kind = "Variable"
    /\ ast[1][1].format # None
    /\ ast[1][1].name \in DOMAIN context
    /\ (idx = 2 \/ pc = "done")

TheFormat == ast[1][1].format[1]
TheValue == context[ast[1][1].name]
TheRepr == string_repr(TheValue)

Returned(r) == result \in {None, Some(r)}

IsFinite(v) == v.tag \notin FloatTags \/ v.cls = "finite"

IsNegative(v) ==
    \/ v.tag \in SignedTags /\ v.num < 0
    \/ v.tag \in FloatTags /\ v.neg

\* the sign a `+` flag adds in front of the representation
PlusText(format, v) ==
    IF format.flags.sign = Some("Plus") /\ is_numeric(v) /\ IsFinite(v) /\ ~IsNegative(v)
    THEN <<"+">> ELSE <<>>

StripMinus(s) == IF s # <<>> /\ Head(s) = "-" THEN Tail(s) ELSE s

(***************************************************************************)
(* Properties                                                              *)
(***************************************************************************)

\* C1: format never aborts: it returns Ok or a typed error, the remaining
\* width never going below zero at a subtraction of write_formatted.
C1_NeverAborts == result # Some(Abort)

\* C2: width-overflow law: when the representation is at least as long as
\* the width, the placeholder's output is the forced sign (if any) followed
\* by the default representation, with no fill and no truncation.
C2_WidthOverflow ==
    (Rendered /\ TheFormat.width # None /\ Len(TheRepr) >= TheFormat.width[1])
        => /\ Returned(Ok)
           /\ write.buf = PlusText(TheFormat, TheValue) \o TheRepr

\* C3: number-aware sign/pad law: a finite number with the zero flag, the
\* `+` flag and a width above the representation length is written in
\* exactly width characters: sign, zeros, digits; fill and alignment of the
\* format-spec are ignored.
C3_NumberAwareSignPad ==
    (/\ Rendered
     /\ is_numeric(TheValue) /\ IsFinite(TheValue)
     /\ TheFormat.flags.zero # None
     /\ TheFormat.flags.sign = Some("Plus")
     /\ TheFormat.width # None /\ TheFormat.width[1] > Len(TheRepr))
        => LET digits == StripMinus(TheRepr)
               sgn == IF IsNegative(TheValue) THEN "-" ELSE "+"
           IN /\ Returned(Ok)
              /\ Len(write.buf) = TheFormat.width[1]
              /\ write.buf = <<sgn>> \o Rep("0", TheFormat.width[1] - 1 - Len(digits))
                                \o digits

C3_Witness ==
    /\ Rendered /\ result = Some(Ok)
    /\ TheValue = IntV("Int", 0 - 194)
    /\ TheFormat = FormatNew(Some(FillNew(Some("*"), "Center")),
                             FlagsNew(Some("Plus"), Some(<<>>)), Some(6), None)
    /\ write.buf = <<"-", "0", "0", "1", "9", "4">>

\* C4: in the number-aware path a negative value is written as "-", then
\* the zero padding, then the digits without their "-", with or without the
\* `+` flag.
C4_NegativeSignFirst ==
    (/\ Rendered
     /\ is_numeric(TheValue) /\ IsFinite(TheValue) /\ IsNegative(TheValue)
     /\ TheFormat.flags.zero # None
     /\ TheFormat.width # None /\ TheFormat.width[1] > Len(TheRepr))
        => /\ Returned(Ok)
           /\ write.buf = <<"-">> \o Rep("0", TheFormat.width[1] - Len(TheRepr))
                             \o Tail(TheRepr)

\* C5: sign rule: with the `+` flag and no width a positive or zero number
\* is written as "+" and its representation; a NaN, an infinity and every
\* non-numeric value are written as their representation alone.
C5_SignRule ==
    (Rendered /\ TheFormat.flags.sign = Some("Plus") /\ TheFormat.width = None)
        => /\ Returned(Ok)
           /\ (is_numeric(TheValue) /\ IsFinite(TheValue) /\ ~IsNegative(TheValue))
                 => write.buf = <<"+">> \o TheRepr
           /\ (~is_numeric(TheValue) \/ ~IsFinite(TheValue))
                 => write.buf = TheRepr

C5_Witness ==
    /\ Rendered /\ result = Some(Ok)
    /\ TheFormat.flags.sign = Some("Plus") /\ TheFormat.width = None
    /\ TheValue = IntV("Uint", 0)
    /\ write.buf = <<"+", "0">>

\* C6: a negative finite number with the `+` flag and no width is written
\* as its representation, with a single "-", zero flag or not.
C6_NegativeSignOnce ==
    (/\ Rendered
     /\ is_numeric(TheValue) /\ IsFinite(TheValue) /\ IsNegative(TheValue)
     /\ TheFormat.flags.sign = Some("Plus") /\ TheFormat.width = None)
        => /\ Returned(Ok)
           /\ write.buf = TheRepr

\* C7: alignment law: outside the number-aware path, when sign and
\* representation together are shorter than the width, the output is
\* exactly width characters: leading fill, sign, value, trailing fill, with
\* the fill character and alignment of the format-spec (space, Left by
\* default).
C7_Alignment ==
    (/\ Rendered
     /\ ~(TheFormat.flags.zero # None /\ is_numeric(TheValue))
     /\ TheFormat.width # None
     /\ Len(PlusText(TheFormat, TheValue)) + Len(TheRepr) < TheFormat.width[1])
        => LET body == PlusText(TheFormat, TheValue) \o TheRepr
               gap == TheFormat.width[1] - Len(body)
               alignment == IF TheFormat.fill = None THEN "Left"
                            ELSE TheFormat.fill[1].alignment
               c == IF TheFormat.fill = None \/ TheFormat.fill[1].fill_char = None
                    THEN " " ELSE TheFormat.fill[1].fill_char[1]
               leading == CASE alignment = "Left" -> 0
                            [] alignment = "Right" -> gap
                            [] alignment = "Center" -> gap \div 2
           IN /\ Returned(Ok)
              /\ Len(write.buf) = TheFormat.width[1]
              /\ write.buf = Rep(c, leading) \o body \o Rep(c, gap - leading)

\* C8: lookup-miss law: a placeholder whose name the lookup does not
\* resolve ends the render with a name-not-found error carrying that name
\* and writes nothing; nothing runs after the error; a name-not-found error
\* only ever names the placeholder being rendered, never an unused name of
\* the lookup.
C8_LookupMiss ==
    [][/\ pc # "done"
       /\ (/\ pc = "format" /\ idx <= Len(ast[1])
           /\ ast[1][idx].kind = "Variable"
           /\ ast[1][idx].name \notin DOMAIN context)
             => /\ result' = Some(VariableNameError(ast[1][idx].name))
                /\ write' = write
                /\ pc' = "done"
       /\ (result' # None /\ result'[1].kind = "VariableNameError")
             => /\ pc = "format" /\ idx <= Len(ast[1])
                /\ ast[1][idx].kind = "Variable"
                /\ ast[1][idx].name \notin DOMAIN context
                /\ result'[1].name = ast[1][idx].name]_vars

C8_Witness ==
    /\ result = Some(VariableNameError(<<"a">>))
    /\ pc = "done" /\ idx = 2
    /\ write.buf = <<"a", "b">>
    /\ <<"s">> \in DOMAIN context

\* C9: a failing sink write ends the render at that write with the
\* literal-write error for a Literal and the variable-write error carrying
\* the name for a placeholder (sign and fill included); the bytes accepted
\* so far stay in the sink and no later token runs.
C9_WriteFailure ==
    [][/\ pc # "done"
       /\ (pc = "format" /\ idx <= Len(ast[1]))
             => LET tok == ast[1][idx]
                    full == write_token(tok, [buf |-> <<>>, room |-> None], context,
                                        overflow_checks)
                    err == IF tok.kind = "Literal" THEN WriteLiteralError
                           ELSE WriteVariableError(tok.name)
                    fails == /\ write.room # None
                             /\ full.res = Ok
                             /\ str_len(full.w.buf) > write.room[1]
                IN /\ fails
                      => /\ result' = Some(err)
                         /\ pc' = "done"
                         /\ idx' = idx
                         /\ \E k \in 0..(Len(full.w.buf) - 1) :
                               write'.buf = write.buf \o SubSeq(full.w.buf, 1, k)
                   /\ (/\ result' # None
                       /\ result'[1].kind \in {"WriteLiteralError", "WriteVariableError"})
                      => fails]_vars

C9_Witness ==
    /\ result = Some(WriteVariableError(<<"b">>))
    /\ pc = "done" /\ idx = 1
    /\ write.buf = <<" ", "+">>
    /\ write.room = Some(0)

Count(c, s) == Cardinality({i \in 1..Len(s) : s[i] = c})

Escape == <<"{", "{">>

AllLiteral(tokens) == \A i \in 1..Len(tokens) : tokens[i].kind = "Literal"

\* index of the first "}" of s, Len(s) + 1 if there is none
FirstClose(s) ==
    IF \E i \in 1..Len(s) : s[i] = "}"
    THEN CHOOSE i \in 1..Len(s) : s[i] = "}" /\ \A j \in 1..(i - 1) : s[j] # "}"
    ELSE Len(s) + 1

\* the number of `{{` escapes of a template, read from left to right: a "{"
\* followed by "{" is an escape, any other "{" opens a brace group
RECURSIVE EscapeCount(_)
EscapeCount(s) ==
    IF s = <<>> THEN 0
    ELSE IF Len(s) >= 2 /\ s[1] = "{" /\ s[2] = "{"
    THEN 1 + EscapeCount(SubSeq(s, 3, Len(s)))
    ELSE IF s[1] = "{" THEN EscapeCount(SubSeq(s, FirstClose(s) + 1, Len(s)))
    ELSE EscapeCount(Tail(s))

\* C11: escape law: rendering writes exactly one "{" for each `{{` escape
\* of the template.
C11_EscapeRendersOneBrace ==
    (/\ pc = "done" /\ ast # None /\ result = Some(Ok)
     /\ AllLiteral(ast[1]))
        => Count("{", write.buf) = EscapeCount(format_str)

\* C12: each `{{` escape compiles to a Literal token of its own whose text
\* is "{{", never merged with the literal text around it.
C12_EscapeTokens ==
    ast # None
        => /\ \A i \in 1..Len(ast[1]) :
                (ast[1][i].kind = "Literal" /\ Count("{", ast[1][i].text) > 0)
                    => ast[1][i].text = Escape
           /\ Cardinality({i \in 1..Len(ast[1]) : ast[1][i] = Literal(Escape)})
                 = EscapeCount(format_str)

C12_Witness ==
    /\ format_str = <<"{", "{", " ", "{", "{", " ", "{", "{">>
    /\ ast = Some(<<Literal(Escape), Literal(<<" ">>), Literal(Escape),
                    Literal(<<" ">>), Literal(Escape)>>)

\* the Rust identifiers: an XID_Start character, then XID_Continue
\* characters or underscores
IsIdent(x) ==
    /\ x # <<>>
    /\ is_xid_start(x[1])
    /\ \A i \in 2..Len(x) : is_xid_continue(x[i]) \/ x[i] = "_"

\* the positions of the "{" that open a brace group, read from left to
\* right: the "{" that are not part of an escape
RECURSIVE GroupStarts(_, _)
GroupStarts(s, off) ==
    IF s = <<>> THEN <<>>
    ELSE IF Len(s) >= 2 /\ s[1] = "{" /\ s[2] = "{"
    THEN GroupStarts(SubSeq(s, 3, Len(s)), off + 2)
    ELSE IF s[1] = "{"
    THEN <<off + 1>> \o GroupStarts(SubSeq(s, FirstClose(s) + 1, Len(s)),
                                    off + FirstClose(s))
    ELSE GroupStarts(Tail(s), off + 1)

\* the slice between the "{" at position p and the ":" or "}" that follows
NameSlice(s, p) ==
    LET ends(q) == q > Len(s) \/ s[q] \in {":", "}"}
        q == CHOOSE q \in (p + 1)..(Len(s) + 1) :
                 ends(q) /\ \A j \in (p + 1)..(q - 1) : ~ends(j)
    IN SubSeq(s, p + 1, q - 1)

VariableTokens(tokens) == SelectSeq(tokens, LAMBDA t : t.kind = "Variable")

IsNumber(x) == x # <<>> /\ \A i \in 1..Len(x) : IsDigit(x[i])

IsAlign(c) == c \in {"<", "^", ">"}

IsFillText(x) ==
    \/ x = <<>>
    \/ Len(x) = 1 /\ IsAlign(x[1])
    \/ Len(x) = 2 /\ IsAlign(x[2])

IsFlagsText(x) ==
    x \in {<<>>, <<"+">>, <<"-">>, <<"0">>, <<"+", "0">>, <<"-", "0">>}

IsPrecisionText(x) == x = <<>> \/ (x[1] = "." /\ IsNumber(Tail(x)))

\* [[fill]align][sign]['0'][width]['.' precision]
IsSpecText(x) ==
    \E i \in 0..Len(x) : \E j \in i..Len(x) : \E k \in j..Len(x) :
        /\ IsFillText(SubSeq(x, 1, i))
        /\ IsFlagsText(SubSeq(x, i + 1, j))
        /\ (j = k \/ IsNumber(SubSeq(x, j + 1, k)))
        /\ IsPrecisionText(SubSeq(x, k + 1, Len(x)))

\* '{' identifier [':' spec] '}'
IsPlaceholderText(x) ==
    /\ Len(x) >= 3 /\ x[1] = "{" /\ x[Len(x)] = "}"
    /\ LET name == NameSlice(x, 1)
           after == SubSeq(x, Len(name) + 2, Len(x) - 1)
       IN /\ IsIdent(name)
          /\ after = <<>> \/ (after[1] = ":" /\ IsSpecText(Tail(after)))

\* a well-formed placeholder starts at position p of s
PlaceholderAt(s, p) ==
    \E q \in p..Len(s) : IsPlaceholderText(SubSeq(s, p, q))

\* the tokens, in order, are the texts of consecutive pieces of s that
\* leave nothing of s over
RECURSIVE Covers(_, _)
Covers(tokens, s) ==
    IF tokens = <<>> THEN s = <<>>
    ELSE LET t == Head(tokens)
         IN IF t.kind = "Literal"
            THEN /\ Len(t.text) >= 1 /\ Len(t.text) <= Len(s)
                 /\ SubSeq(s, 1, Len(t.text)) = t.text
                 /\ Covers(Tail(tokens), SubSeq(s, Len(t.text) + 1, Len(s)))
            ELSE \E n \in 1..Len(s) :
                    LET piece == SubSeq(s, 1, n)
                    IN /\ IsPlaceholderText(piece)
                       /\ NameSlice(piece, 1) = t.name
                       /\ (t.format = None) = (n = Len(t.name) + 2)
                       /\ Covers(Tail(tokens), SubSeq(s, n + 1, Len(s)))

\* C14: compile consumes the whole template or fails: it returns a compile
\* error, with no tokens, when some "{" starts neither an escape nor a
\* well-formed placeholder; when it succeeds the source texts of the tokens,
\* concatenated in order, are the template.
C14_WholeTemplate ==
    pc # "compile" =>
        /\ (\E k \in 1..Len(GroupStarts(format_str, 0)) :
                ~PlaceholderAt(format_str, GroupStarts(format_str, 0)[k]))
              => /\ ast = None /\ result = Some(CompileError)
                 /\ write.buf = <<>> /\ renders = <<>>
        /\ ast # None => Covers(ast[1], format_str)
        /\ ast = None => result = Some(CompileError)

C14_Witness ==
    /\ format_str = <<"{", "a", ":", "5", "x", "}">>
    /\ pc = "done" /\ ast = None /\ result = Some(CompileError)

(***************************************************************************)
(* Precision                                                               *)
(***************************************************************************)
\* the state is the one that write_token leaves when it returns r
Outcome(r) ==
    /\ write.buf = r.w.buf
    /\ IF r.res = Ok THEN result \in {None, Some(Ok)} ELSE result = Some(r.res)

\* the template s without its `.N`
WithoutPrecision(s) ==
    IF \A i \in 1..Len(s) : s[i] # "." THEN s
    ELSE LET p == CHOOSE i \in 1..Len(s) :
                      s[i] = "." /\ \A j \in 1..(i - 1) : s[j] # "."
             q == CHOOSE i \in (p + 1)..Len(s) :
                      ~IsDigit(s[i]) /\ \A j \in (p + 1)..(i - 1) : IsDigit(s[j])
         IN SubSeq(s, 1, p - 1) \o SubSeq(s, q, Len(s))

Contains(s, x) == \E i \in 0..(Len(s) - Len(x)) : SubSeq(s, i + 1, i + Len(x)) = x

\* what format! shows of a value under the fixed precision n, without its
\* sign (for a fraction of at most n digits, where nothing is rounded)
FixedRepr(v, n) ==
    IF v.tag \in FloatTags /\ v.cls = "finite"
    THEN Digits(v.whole) \o (IF n = 0 THEN <<>> ELSE <<".">> \o FixFrac(v.frac, n))
    ELSE IF v.tag \in SignedTags /\ v.num < 0 THEN Digits(0 - v.num)
    ELSE string_repr(v)

\* C16: fixed precision is implemented as in format!: a finite float under
\* `.N` shows N digits after the point, an integer is unchanged.
C16_FixedPrecision ==
    (Rendered /\ TheFormat.precision # None /\ result = Some(Ok))
        => Contains(write.buf, FixedRepr(TheValue, TheFormat.precision[1]))

(***************************************************************************)
(* The `-` sign flag                                                       *)
(***************************************************************************)
\* the position of the sign flag in a template that is one placeholder with
\* a format-spec: behind the ":" and the fill and alignment, if any
SignPos(s) ==
    LET spec == SubSeq(s, Len(NameSlice(s, 1)) + 3, Len(s))
    IN Len(s) - Len(Opt(fill_spec(spec), spec).rest) + 1

HasMinusFlag(s) == SignPos(s) <= Len(s) /\ s[SignPos(s)] = "-"

WithoutMinus(s) == SubSeq(s, 1, SignPos(s) - 1) \o SubSeq(s, SignPos(s) + 1, Len(s))

\* C20: a template whose format-spec has `-` in the sign position compiles,
\* and renders the bytes, with the result, of the same format-spec without
\* the `-`.
C20_MinusFlag ==
    (pc # "compile" /\ HasMinusFlag(format_str)) =>
        LET other == compile(WithoutMinus(format_str))
        IN /\ ast # None
           /\ ast[1][1].format[1].flags.sign = Some("Minus")
           /\ other.ok
           /\ other.val = <<Variable(ast[1][1].name,
                   Some([ast[1][1].format[1] EXCEPT !.flags.sign = None]))>>
           /\ Rendered =>
                 Outcome(write_token(other.val[1], [buf |-> <<>>, room |-> None],
                                     context, overflow_checks))

C20_Witness ==
    /\ format_str = <<"{", "n", ":", "*", ">", "-", "0", "6", "}">>
    /\ context[<<"n">>] = IntV("Int64", 42)
    /\ pc = "done" /\ result = Some(Ok)
    /\ write.buf = <<"0", "0", "0", "0", "4", "2">>

(***************************************************************************)
(* Placeholders rendered into sinks of bounded room                        *)
(***************************************************************************)
SinkTemplates ==
    { <<"{", "n", ":">> \o f \o sg \o z \o w \o <<"}">> :
        f \in {<<>>, <<"*", "<">>, <<"^">>, <<">">>},
        sg \in {<<>>, <<"+">>}, z \in ZeroPieces, w \in WidthPieces }

\* values whose representation holds no " ", "*" or "0"
SinkValues ==
    { Str(<<"a", "b">>), IntV("Int", 0 - 194), IntV("Int64", 42), IntV("Uint8", 7) }

InitSink ==
    /\ format_str \in SinkTemplates
    /\ context \in {(<<"n">> :> v) : v \in SinkValues}
    /\ write \in {[buf |-> <<>>, room |-> Some(MaxWidth + r)] : r \in 1..MaxRoom}
    /\ overflow_checks \in BOOLEAN
    /\ ast = None
    /\ idx = 0
    /\ result = None
    /\ renders = <<>>
    /\ record = None
    /\ found = None
    /\ pc = "compile"

SpecSink == InitSink /\ [][Next]_vars

Max(a, b) == IF a >= b THEN a ELSE b

RequestedWidth == IF TheFormat.width = None THEN 0 ELSE TheFormat.width[1]

\* the fill characters in the output of the placeholder
FillCount ==
    Count(get_fill_char_or_default(get_fill(TheFormat, TheValue)), write.buf)

\* C19: a format call returns after one pass over the tokens; the fill
\* characters written for a placeholder are at most its width, and the
\* output at most max(width, length of sign + representation).
C19_BoundedOutput ==
    Rendered =>
        /\ result # Some(Abort)
        /\ FillCount <= RequestedWidth
        /\ Len(write.buf) <= Max(RequestedWidth,
                                 Len(PlusText(TheFormat, TheValue) \o TheRepr))

(***************************************************************************)
(* One CompiledFormat rendered several times                               *)
(***************************************************************************)
MaxRenders == 3

RenderTemplates ==
    { <<"a", "b", "{", "a", "}">>,
      <<"{", "a", "}", "{", "b", ":", ">", "+", "3", "}">>,
      <<"{", "{", " ", "{", "b", ":", ">", "+", "3", "}">>,
      <<"{", "b", ":", "*", "^", "3", "}", "{", "a", "}">> }

RenderContexts ==
    { (<<"a">> :> Str(<<"a", "b">>)) @@ (<<"b">> :> IntV("Uint8", 7)),
      (<<"a">> :> IntV("Int8", 0 - 5)) @@ (<<"b">> :> IntV("Uint8", 7)),
      (<<"a">> :> IntV("Int8", 0 - 5)) }

RenderSinks == {[buf |-> <<>>, room |-> r] : r \in {None, Some(MaxRoom)}}

InitRender ==
    /\ format_str \in RenderTemplates
    /\ context \in RenderContexts
    /\ write \in RenderSinks
    /\ overflow_checks \in BOOLEAN
    /\ ast = None
    /\ idx = 0
    /\ result = None
    /\ renders = <<>>
    /\ record = None
    /\ found = None
    /\ pc = "compile"

\* a further call that goes on where the iteration of the last call stopped
Rerender_resume ==
    /\ pc = "done"
    /\ ast # None
    /\ result # Some(Abort)
    /\ Len(renders) < MaxRenders
    /\ context' \in RenderContexts
    /\ write' \in RenderSinks
    /\ result' = None
    /\ pc' = "format"
    /\ UNCHANGED <<format_str, ast, idx, overflow_checks, renders, record, found>>

\* a further call of CompiledFormat::format(&self, write, context) on the
\* same CompiledFormat: `for token in &self.ast` starts at the first token
Rerender ==
    /\ pc = "done"
    /\ ast # None
    /\ result # Some(Abort)
    /\ Len(renders) < MaxRenders
    /\ context' \in RenderContexts
    /\ write' \in RenderSinks
    /\ idx' = 1
    /\ result' = None
    /\ pc' = "format"
    /\ UNCHANGED <<format_str, ast, overflow_checks, renders, record, found>>

NextRender == Compile \/ WriteToken \/ FormatReturn \/ Rerender

SpecRender == InitRender /\ [][NextRender]_vars

\* what one pass over the tokens from the token at i gives: the result of
\* the first token that fails, or Ok
RECURSIVE RenderFrom(_, _, _, _, _)
RenderFrom(tokens, i, ctx, w, oc) ==
    IF i > Len(tokens) THEN [w |-> w, res |-> Ok]
    ELSE LET r == write_token(tokens[i], w, ctx, oc)
         IN IF r.res # Ok THEN r ELSE RenderFrom(tokens, i + 1, ctx, r.w, oc)

\* every call that returned gave what its tokens and its own lookup and sink
\* determine, and calls with the same lookup and sink gave the same
RendersDetermined ==
    /\ \A i \in 1..Len(renders) :
          LET r == RenderFrom(ast[1], 1, renders[i].context,
                              [buf |-> <<>>, room |-> renders[i].room],
                              overflow_checks)
          IN renders[i].buf = r.w.buf /\ renders[i].result = r.res
    /\ \A i, j \in 1..Len(renders) :
          (renders[i].context = renders[j].context /\ renders[i].room = renders[j].room)
              => (renders[i].buf = renders[j].buf /\ renders[i].result = renders[j].result)

\* C17: compile once, render many: a format call leaves the token sequence
\* unchanged, the same lookup gives the same output or error each time, and
\* a render depends on the tokens and its own lookup only, not on earlier
\* renders.
C17_CompileOnceRenderMany ==
    [][ast # None => ast' = ast]_vars /\ []RendersDetermined

C17_Witness ==
    /\ Len(renders) = 3
    /\ renders[1].context = renders[3].context
    /\ renders[1].context # renders[2].context
    /\ renders[1].room = None /\ renders[2].room = None /\ renders[3].room = None
    /\ renders[1].buf = <<"a", "b", "a", "b">>
    /\ renders[2].buf = <<"a", "b", "-", "5">>
    /\ renders[3].buf = renders[1].buf
    /\ renders[3].result = Ok

(***************************************************************************)
(* sformat-dynamic-derive: #[derive(Context)], and direct get_variable     *)
(* calls on a HashMap or on the derived implementation.  A struct is the   *)
(* sequence of its named fields [ident, ty, val]; val is the payload of    *)
(* the TypedValue that wraps it.                                           *)
(***************************************************************************)
\* get_match_arm with every integer type wrapped as TypedValue::Int
get_match_arm_int(field) ==
    IF field.ty = "&str" THEN [ok |-> FALSE]
    ELSE CASE field.ty \in {"isize", "i64", "i32", "i16", "i8",
                            "usize", "u64", "u32", "u16", "u8"} ->
                  [ok |-> TRUE, pat |-> field.ident, variant |-> "Int", field |-> field.ident]
           [] field.ty = "f64" ->
                  [ok |-> TRUE, pat |-> field.ident, variant |-> "Float64", field |-> field.ident]
           [] field.ty = "f32" ->
                  [ok |-> TRUE, pat |-> field.ident, variant |-> "Float32", field |-> field.ident]
           [] field.ty = "bool" ->
                  [ok |-> TRUE, pat |-> field.ident, variant |-> "Bool", field |-> field.ident]
           [] OTHER -> [ok |-> FALSE]

\* get_match_arm: the arm `stringify!(ident) => Ok(TypedValue::V(self.ident))`,
\* or a panic of the macro (ok = FALSE)
get_match_arm(field) ==
    LET arm(v) == [ok |-> TRUE, pat |-> field.ident, variant |-> v, field |-> field.ident]
    IN IF field.ty = "&str" THEN [ok |-> FALSE]
       ELSE CASE field.ty = "isize" -> arm("Int")
              [] field.ty = "i64" -> arm("Int64")
              [] field.ty = "i32" -> arm("Int32")
              [] field.ty = "i16" -> arm("Int16")
              [] field.ty = "i8" -> arm("Int8")
              [] field.ty = "usize" -> arm("Uint")
              [] field.ty = "u64" -> arm("Uint64")
              [] field.ty = "u32" -> arm("Uint32")
              [] field.ty = "u16" -> arm("Uint16")
              [] field.ty = "u8" -> arm("Uint8")
              [] field.ty = "f64" -> arm("Float64")
              [] field.ty = "f32" -> arm("Float32")
              [] field.ty = "bool" -> arm("Bool")
              [] OTHER -> [ok |-> FALSE]

\* expand_derive_context: the match arms of the generated get_variable
expand_derive_context(input) ==
    LET match_arms == [i \in 1..Len(input) |-> get_match_arm(input[i])]
    IN IF \E i \in 1..Len(input) : ~match_arms[i].ok
       THEN [ok |-> FALSE, arms |-> <<>>]
       ELSE [ok |-> TRUE, arms |-> match_arms]

\* the generated get_variable: `match name { arms.. _ => Err(..) }`
RECURSIVE derived_get_variable(_, _, _)
derived_get_variable(arms, self, name) ==
    IF arms = <<>> THEN [res |-> VariableNameError(name), val |-> None]
    ELSE IF Head(arms).pat = name
    THEN LET f == CHOOSE f \in {self[i] : i \in 1..Len(self)} :
                      f.ident = Head(arms).field
         IN [res |-> Ok, val |-> Some([tag |-> Head(arms).variant] @@ f.val)]
    ELSE derived_get_variable(Tail(arms), self, name)

FieldTypes ==
    {"isize", "i64", "i32", "i16", "i8", "usize", "u64", "u32", "u16", "u8",
     "f64", "f32", "bool", "&str", "String"}

\* some values of each type
TypeValues(ty) ==
    CASE ty \in {"isize", "i64", "i32", "i16", "i8"} ->
              {[num |-> 0 - 128], [num |-> 42]}
      [] ty \in {"usize", "u64", "u32", "u16", "u8"} -> {[num |-> 0], [num |-> 128]}
      [] ty \in {"f64", "f32"} ->
              {[cls |-> "finite", neg |-> TRUE, whole |-> 1, frac |-> <<"5">>],
               [cls |-> "nan", neg |-> FALSE, whole |-> 0, frac |-> <<>>]}
      [] ty = "bool" -> {[b |-> TRUE], [b |-> FALSE]}
      [] OTHER -> {[inner |-> <<"a", "b">>], [inner |-> <<>>]}

\* structs of one or two named fields
Structs ==
    LET field(ident) == UNION {{[ident |-> ident, ty |-> ty, val |-> v] :
                                   v \in TypeValues(ty)} : ty \in FieldTypes}
    IN {<<a>> : a \in field(<<"a">>)}
       \cup {<<a, b>> : a \in field(<<"a">>), b \in field(<<"a", "b">>)}

QueryNames == {<<"a">>, <<"A">>, <<"a", "b">>, <<"b">>, <<"s">>, <<>>}

InitLookup ==
    /\ \/ record = None /\ context \in Contexts /\ pc = "lookup"
       \/ record \in {Some(st) : st \in Structs} /\ context = <<>> /\ pc = "derive"
    /\ format_str = <<>>
    /\ write = [buf |-> <<>>, room |-> None]
    /\ overflow_checks = FALSE
    /\ ast = None
    /\ idx = 0
    /\ result = None
    /\ renders = <<>>
    /\ found = None

\* the expansion of #[derive(Context)] on the struct; a panic of the macro
\* ends the build
Derive ==
    /\ pc = "derive"
    /\ LET r == expand_derive_context(record[1])
       IN IF r.ok
          THEN context' = r.arms /\ pc' = "lookup" /\ UNCHANGED result
          ELSE result' = Some(Abort) /\ pc' = "done" /\ UNCHANGED context
    /\ UNCHANGED <<format_str, ast, write, idx, overflow_checks, renders, record, found>>

\* context.get_variable(name)
GetVariable ==
    /\ pc = "lookup"
    /\ \E name \in QueryNames :
          found' = Some([name |-> name,
                         res |-> IF record = None THEN get_variable(context, name)
                                 ELSE derived_get_variable(context, record[1], name)])
    /\ UNCHANGED <<format_str, ast, context, write, idx, result, overflow_checks,
                   renders, record, pc>>

\* an assignment to a field of the struct between two lookups
Assign ==
    /\ pc = "lookup"
    /\ record # None
    /\ \E i \in 1..Len(record[1]) : \E v \in TypeValues(record[1][i].ty) :
          record' = Some([record[1] EXCEPT ![i].val = v])
    /\ found' = None
    /\ UNCHANGED <<format_str, ast, context, write, idx, result, overflow_checks,
                   renders, pc>>

NextLookup == Derive \/ GetVariable \/ Assign

SpecLookup == InitLookup /\ [][NextLookup]_vars

\* the TypedValue variant that wraps a field of the declared type
DeclaredVariant ==
    [ty \in FieldTypes \ {"&str", "String"} |->
        CASE ty = "isize" -> "Int" [] ty = "usize" -> "Uint"
          [] ty = "i64" -> "Int64" [] ty = "u64" -> "Uint64"
          [] ty = "i32" -> "Int32" [] ty = "u32" -> "Uint32"
          [] ty = "i16" -> "Int16" [] ty = "u16" -> "Uint16"
          [] ty = "i8" -> "Int8" [] ty = "u8" -> "Uint8"
          [] ty = "f64" -> "Float64" [] ty = "f32" -> "Float32"
          [] ty = "bool" -> "Bool"]

NotFound(name) == [res |-> VariableNameError(name), val |-> None]

LookupLaw ==
    found # None =>
        LET name == found[1].name
            r == found[1].res
        IN IF record = None
           THEN IF name \in DOMAIN context
                THEN r = [res |-> Ok, val |-> Some(context[name])]
                ELSE r = NotFound(name)
           ELSE LET fs == record[1]
                    named == {i \in 1..Len(fs) : fs[i].ident = name}
                IN IF named # {}
                   THEN \A i \in named :
                           r = [res |-> Ok,
                                val |-> Some([tag |-> DeclaredVariant[fs[i].ty]]
                                             @@ fs[i].val)]
                   ELSE r = NotFound(name)

C22_WidthInChars ==
    (Rendered /\ TheValue.tag = "Str" /\ TheFormat.width # None)
        => /\ Returned(Ok)
           /\ IF Len(TheRepr) < TheFormat.width[1]
              THEN /\ Len(write.buf) = TheFormat.width[1]
                   /\ FillCount = TheFormat.width[1] - Len(TheRepr)
              ELSE write.buf = TheRepr

(***************************************************************************)
(* Format-specs whose components come in any order                         *)
(***************************************************************************)
MaxComponents == 3

\* fill/alignment, sign, zero flag, width and precision components
Components ==
    { <<"*", ">">>, <<"<">>, <<"0", "^">>, <<"+", "<">>,
      <<"+">>, <<"-">>, <<"0">>, <<"5">>, <<"5", "6">>, <<".", "2">> }

RECURSIVE DecimalValue(_)
DecimalValue(x) ==
    IF x = <<>> THEN 0
    ELSE 10 * DecimalValue(SubSeq(x, 1, Len(x) - 1)) + DigitValue(x[Len(x)])

\* the largest number a template of this specification holds
MaxNumber == 56

NumbersWithin(x) ==
    \A i \in 1..Len(x) : \A j \in i..Len(x) :
        (\A k \in i..j : IsDigit(x[k])) => DecimalValue(SubSeq(x, i, j)) <= MaxNumber

OrderTemplates ==
    {<<"{", "n", ":">> \o x \o <<"}">> :
        x \in {y \in Concats(Components, MaxComponents) : NumbersWithin(y)}}

InitOrder ==
    /\ format_str \in OrderTemplates
    /\ context \in {(<<"n">> :> v) : v \in {IntV("Int64", 42), Str(<<"a", "b">>)}}
    /\ write = [buf |-> <<>>, room |-> None]
    /\ overflow_checks = FALSE
    /\ ast = None
    /\ idx = 0
    /\ result = None
    /\ renders = <<>>
    /\ record = None
    /\ found = None
    /\ pc = "compile"

SpecOrder == InitOrder /\ [][Next]_vars

\* the text of the format-spec of a template that is one placeholder
SpecTextOf(s) == SubSeq(s, Len(NameSlice(s, 1)) + 3, Len(s) - 1)

\* the number of leading digits of x from position p on
DigitRun(x, p) ==
    CHOOSE n \in 0..(Len(x) - p + 1) :
        /\ \A i \in p..(p + n - 1) : IsDigit(x[i])
        /\ p + n > Len(x) \/ ~IsDigit(x[p + n])

AlignmentOf(c) ==
    CASE c = "<" -> "Left" [] c = "^" -> "Center" [] c = ">" -> "Right"

\* the Format that the fixed order reads off the spec text x: a character
\* followed by an alignment is the fill, then the sign, then a "0" is the
\* zero flag, then the digits are the width, then "." and the precision
ReadInOrder(x) ==
    LET at(i, c) == Len(x) >= i /\ x[i] = c
        f == IF Len(x) >= 2 /\ IsAlign(x[2]) THEN 2
             ELSE IF Len(x) >= 1 /\ IsAlign(x[1]) THEN 1 ELSE 0
        fill == CASE f = 2 -> Some(FillNew(Some(x[1]), AlignmentOf(x[2])))
                  [] f = 1 -> Some(FillNew(None, AlignmentOf(x[1])))
                  [] OTHER -> None
        sgn == IF at(f + 1, "+") THEN Some("Plus")
               ELSE IF at(f + 1, "-") THEN Some("Minus") ELSE None
        g == IF sgn = None THEN f ELSE f + 1
        zero == IF at(g + 1, "0") THEN Some(<<>>) ELSE None
        z == IF zero = None THEN g ELSE g + 1
        wn == DigitRun(x, z + 1)
        width == IF wn = 0 THEN None ELSE Some(DecimalValue(SubSeq(x, z + 1, z + wn)))
        w == z + wn
        pn == IF at(w + 1, ".") THEN DigitRun(x, w + 2) ELSE 0
        precision == IF pn = 0 THEN None
                     ELSE Some(DecimalValue(SubSeq(x, w + 2, w + 1 + pn)))
        end == IF pn = 0 THEN w ELSE w + 1 + pn
    IN [whole |-> end = Len(x),
        format |-> FormatNew(fill, FlagsNew(sgn, zero), width, precision)]

\* C21: format-spec components are accepted in the fixed order fill and
\* alignment, sign, zero flag, width, precision only: a character followed
\* by an alignment at the start is the fill (even "0" or "+"), a "0" after
\* the optional sign is the zero flag and the digits after it the width,
\* and a spec in any other order is a compile error.
C21_ComponentOrder ==
    pc # "compile" =>
        LET x == SpecTextOf(format_str)
            r == ReadInOrder(x)
        IN /\ r.whole = IsSpecText(x)
           /\ IF r.whole
              THEN ast = Some(<<Variable(<<"n">>, Some(r.format))>>)
              ELSE ast = None /\ result = Some(CompileError)

C21_Witness ==
    /\ format_str = <<"{", "n", ":", "+", "0", "5", "6", "}">>
    /\ ast = Some(<<Variable(<<"n">>,
                 Some(FormatNew(None, FlagsNew(Some("Plus"), Some(<<>>)),
                                Some(56), None)))>>)
    /\ pc = "done"

(***************************************************************************)
(* Literal runs                                                            *)
(***************************************************************************)
\* the last position of the placeholder that starts at the head of s
PlaceholderEnd(s) ==
    LET ends == {q \in 1..Len(s) : IsPlaceholderText(SubSeq(s, 1, q))}
    IN IF ends = {} THEN Len(s)
       ELSE CHOOSE q \in ends : \A r \in ends : r <= q

\* the maximal runs of characters of a template that hold no "{" and lie
\* outside the placeholders, from left to right; cur is the run so far
RECURSIVE Runs(_, _)
Runs(s, cur) ==
    LET flush == IF cur = <<>> THEN <<>> ELSE <<cur>>
    IN IF s = <<>> THEN flush
       ELSE IF s[1] # "{" THEN Runs(Tail(s), Append(cur, s[1]))
       ELSE IF Len(s) >= 2 /\ s[2] = "{"
       THEN flush \o Runs(SubSeq(s, 3, Len(s)), <<>>)
       ELSE flush \o Runs(SubSeq(s, PlaceholderEnd(s) + 1, Len(s)), <<>>)

IsRunToken(t) == t.kind = "Literal" /\ t.text # Escape

\* C23: every maximal run of template characters without "{" outside a
\* placeholder compiles to exactly one Literal token equal to the run: no
\* Literal token but the escape holds "{", no two run tokens are adjacent,
\* and "}" outside a placeholder ("}}" too) is kept as literal text.
C23_LiteralRuns ==
    /\ ast # None =>
          LET tokens == ast[1]
              runs == SelectSeq(tokens, IsRunToken)
          IN /\ [i \in 1..Len(runs) |-> runs[i].text] = Runs(format_str, <<>>)
             /\ \A i \in 1..Len(tokens) :
                   IsRunToken(tokens[i]) =>
                       /\ tokens[i].text # <<>>
                       /\ Count("{", tokens[i].text) = 0
                       /\ i < Len(tokens) => ~IsRunToken(tokens[i + 1])
    /\ (pc # "compile" /\ format_str # <<>> /\ Count("{", format_str) = 0)
          => ast = Some(<<Literal(format_str)>>)

C23_Witness ==
    /\ format_str = <<"{", "a", "}", "}">>
    /\ ast = Some(<<Variable(<<"a">>, None), Literal(<<"}">>)>>)

====
